---- MODULE Spec2Model ----
(***************************************************************************)
(* Model of app/src/lib/helpers/repo-rules.ts: the repository-rules        *)
(* helpers parseRepoRules, getRulesetsApplicableToBranchName and the       *)
(* metadata matchers built by toMatcher.                                   *)
(*                                                                         *)
(* Strings are sequences of one-character strings, so that quoting,        *)
(* regular-expression compilation and glob matching are computed           *)
(* character by character.  An optional value (T | undefined | null) is a  *)
(* sequence of length at most one: << >> is undefined/null, <<v>> is v.    *)
(***************************************************************************)
EXTENDS Integers, Sequences, FiniteSets, TLC

\* ------------------------------------------------------------------------
\* Bounds of the explored inputs
\* ------------------------------------------------------------------------
MaxRules == 2
MaxRulesets == 2
MaxLen == 2

\* ------------------------------------------------------------------------
\* Generic helpers
\* ------------------------------------------------------------------------
SeqsUpTo(S, n) == UNION {[1..k -> S] : k \in 0..n}

IsDefined(opt) == Len(opt) = 1

\* JavaScript truthiness of (string | null): null and "" are falsy.
Truthy(optStr) == Len(optStr) = 1 /\ Len(optStr[1]) > 0

\* ------------------------------------------------------------------------
\* RE2JS, restricted to the fragment the modelled patterns use:
\* literals, '.', '^', '$', the postfix '*', backslash escapes of
\* metacharacters, and the unbalanced '(' (a syntax error).
\* ------------------------------------------------------------------------
MetaChars == {"\\", ".", "+", "*", "?", "(", ")", "|", "[", "]", "{", "}", "^", "$"}

\* RE2JS.quote: every metacharacter is preceded by a backslash.
RECURSIVE Quote(_)
Quote(s) ==
  IF Len(s) = 0 THEN << >>
  ELSE (IF Head(s) \in MetaChars THEN <<"\\", Head(s)>> ELSE <<Head(s)>>)
       \o Quote(Tail(s))

Tok(kind, ch) == [kind |-> kind, ch |-> ch, star |-> FALSE]

CompileError == [ok |-> FALSE, toks |-> << >>]

\* RE2JS.compile: parse the pattern text left to right into tokens.
\* ok = FALSE stands for the RE2JSSyntaxException the call throws.
RECURSIVE ParseRegex(_, _, _)
ParseRegex(src, i, toks) ==
  IF i > Len(src) THEN [ok |-> TRUE, toks |-> toks]
  ELSE LET c == src[i] IN
    CASE c = "\\" ->
           IF i = Len(src) THEN CompileError   \* trailing backslash
           ELSE ParseRegex(src, i + 2, Append(toks, Tok("lit", src[i + 1])))
      [] c = "(" -> CompileError               \* missing closing )
      [] c = ")" -> CompileError               \* unexpected )
      [] c = "*" ->
           IF Len(toks) = 0 THEN CompileError  \* missing argument to repetition
           ELSE IF toks[Len(toks)].star THEN CompileError \* nested repetition
           ELSE ParseRegex(src, i + 1,
                           [toks EXCEPT ![Len(toks)].star = TRUE])
      [] c = "^" -> ParseRegex(src, i + 1, Append(toks, Tok("bol", "")))
      [] c = "$" -> ParseRegex(src, i + 1, Append(toks, Tok("eol", "")))
      [] c = "." -> ParseRegex(src, i + 1, Append(toks, Tok("any", "")))
      [] OTHER   -> ParseRegex(src, i + 1, Append(toks, Tok("lit", c)))

RE2JSCompile(src) == ParseRegex(src, 1, << >>)

\* Does token t match at 0-based offset i of x?  (its width is TokWidth)
TokWidth(t) == IF t.kind \in {"bol", "eol"} THEN 0 ELSE 1

TokAt(t, x, i) ==
  CASE t.kind = "bol" -> i = 0
    [] t.kind = "eol" -> i = Len(x)
    [] t.kind = "any" -> i < Len(x)
    [] OTHER          -> i < Len(x) /\ x[i + 1] = t.ch

\* Do the tokens k.. match some stretch of x that starts at offset i?
RECURSIVE MatchFrom(_, _, _, _)
MatchFrom(toks, k, x, i) ==
  IF k > Len(toks) THEN TRUE
  ELSE LET t == toks[k] IN
    IF t.star
    THEN \/ MatchFrom(toks, k + 1, x, i)
         \/ /\ TokWidth(t) = 1
            /\ TokAt(t, x, i)
            /\ MatchFrom(toks, k, x, i + 1)
    ELSE /\ TokAt(t, x, i)
         /\ MatchFrom(toks, k + 1, x, i + TokWidth(t))

\* regex.matcher(x).find(): an unanchored search.
RegexFind(toks, x) == \E s \in 0..Len(x) : MatchFrom(toks, 1, x, s)

\* ------------------------------------------------------------------------
\* Metadata matchers (toMatcher, toHumanDescription, toMetadataRule)
\* ------------------------------------------------------------------------
Operators == {"StartsWith", "EndsWith", "Contains", "RegexMatch"}

\* The closure `() => false`.
NeverMatcher == [kind |-> "never", toks |-> << >>, negate |-> FALSE]

\* The closures over a compiled regex, with the captured negate flag.
FindMatcher(toks, negate) == [kind |-> "find", toks |-> toks, negate |-> negate]

\* Calling a matcher closure on the string toMatch.
Matches(matcher, toMatch) ==
  IF matcher.kind = "never" THEN FALSE
  ELSE IF matcher.negate THEN ~RegexFind(matcher.toks, toMatch)
       ELSE RegexFind(matcher.toks, toMatch)

\* The text handed to RE2JS.compile for each operator; << >> (undefined)
\* when the switch has no case for the operator.
RegexSource(params) ==
  CASE params.operator = "StartsWith" -> << <<"^">> \o Quote(params.pattern) >>
    [] params.operator = "EndsWith"   -> << Quote(params.pattern) \o <<"$">> >>
    [] params.operator = "Contains"   ->
         << <<".", "*">> \o Quote(params.pattern) \o <<".", "*">> >>
    [] params.operator = "RegexMatch" -> << params.pattern >>
    [] OTHER                          -> << >>

toMatcherIgnoringNegate(rule) ==
  IF ~IsDefined(rule) THEN [threw |-> FALSE, matcher |-> NeverMatcher]
  ELSE LET src == RegexSource(rule[1]) IN
    IF ~IsDefined(src) THEN [threw |-> FALSE, matcher |-> NeverMatcher]
    ELSE LET regex == RE2JSCompile(src[1]) IN
      IF ~regex.ok THEN [threw |-> TRUE, matcher |-> NeverMatcher]
      ELSE [threw |-> FALSE, matcher |-> FindMatcher(regex.toks, FALSE)]

\* toMatcher(rule): rule is the optional parameters record.  threw = TRUE
\* when RE2JS.compile raised; nothing in this file catches it.
toMatcher(rule) ==
  IF ~IsDefined(rule) THEN [threw |-> FALSE, matcher |-> NeverMatcher]
  ELSE LET src == RegexSource(rule[1]) IN
    IF ~IsDefined(src) THEN [threw |-> FALSE, matcher |-> NeverMatcher]
    ELSE LET regex == RE2JSCompile(src[1]) IN
      IF ~regex.ok THEN [threw |-> TRUE, matcher |-> NeverMatcher]
      ELSE [threw |-> FALSE, matcher |-> FindMatcher(regex.toks, rule[1].negate)]

\* The description is the concatenation of the listed pieces.
NoDescription == << >>

toHumanDescription(apiParams) ==
  LET description == <<"must ">> \o (IF apiParams.negate THEN <<"not ">> ELSE << >>)
      quoted == <<"\"">> \o apiParams.pattern \o <<"\"">>
  IN IF apiParams.operator = "RegexMatch"
     THEN description \o <<"match the regular expression ">> \o quoted
     ELSE description
          \o (CASE apiParams.operator = "StartsWith" -> <<"start with ">>
                [] apiParams.operator = "EndsWith"   -> <<"end with ">>
                [] apiParams.operator = "Contains"   -> <<"contain ">>
                [] OTHER                             -> << >>)
          \o quoted

\* toMetadataRule(rule, enforced): value is the optional entry returned.
toMetadataRule(rule, enforced) ==
  IF ~IsDefined(rule.parameters) THEN [threw |-> FALSE, value |-> << >>]
  ELSE LET m == toMatcher(rule.parameters) IN
    IF m.threw THEN [threw |-> TRUE, value |-> << >>]
    ELSE [threw |-> FALSE,
          value |-> << [enforced |-> enforced,
                        matcher |-> m.matcher,
                        humanDescription |-> toHumanDescription(rule.parameters[1]),
                        rulesetId |-> rule.ruleset_id] >>]

\* ------------------------------------------------------------------------
\* minimatch under REPO_RULES_MINIMATCH_OPTIONS, restricted to patterns
\* built from literals, '?', '*', '/' and whole-segment '**'.
\* ------------------------------------------------------------------------
RECURSIVE SplitFrom(_, _, _, _)
SplitFrom(s, i, cur, acc) ==
  IF i > Len(s) THEN Append(acc, cur)
  ELSE IF s[i] = "/" THEN SplitFrom(s, i + 1, << >>, Append(acc, cur))
  ELSE SplitFrom(s, i + 1, Append(cur, s[i]), acc)

\* preserveMultipleSlashes: split on every '/', empty segments are kept.
SlashSplit(s) == SplitFrom(s, 1, << >>, << >>)

HasMagic(seg) == \E i \in 1..Len(seg) : seg[i] \in {"*", "?"}

IsGlobstar(seg) == seg = <<"*", "*">>

StartsWithDot(seg) == Len(seg) > 0 /\ seg[1] = "."

RECURSIVE Wild(_, _, _, _)
Wild(p, i, s, j) ==
  IF i > Len(p) THEN j > Len(s)
  ELSE CASE p[i] = "*" -> \/ Wild(p, i + 1, s, j)
                          \/ j <= Len(s) /\ Wild(p, i, s, j + 1)
         [] p[i] = "?" -> j <= Len(s) /\ Wild(p, i + 1, s, j + 1)
         [] OTHER      -> j <= Len(s) /\ s[j] = p[i] /\ Wild(p, i + 1, s, j + 1)

\* One pattern segment against one path segment: a segment without magic
\* is compared as a string; a magic one needs a non-empty segment that does
\* not start with a dot the pattern does not spell out (dot: false).
SegmentMatches(p, s) ==
  IF ~HasMagic(p) THEN p = s
  ELSE /\ Len(s) > 0
       /\ (StartsWithDot(s) => StartsWithDot(p))
       /\ Wild(p, 1, s, 1)

\* Minimatch.matchOne with partial = false; fi and pi are 1-based.
RECURSIVE MatchOne(_, _, _, _)
MatchOne(file, pattern, fi, pi) ==
  LET fl == Len(file)
      pl == Len(pattern)
  IN IF fi > fl /\ pi > pl THEN TRUE
     ELSE IF fi > fl THEN FALSE
     ELSE IF pi > pl THEN fi = fl /\ file[fi] = << >>
     ELSE IF IsGlobstar(pattern[pi])
          THEN IF pi = pl
               THEN \A k \in fi..fl : ~StartsWithDot(file[k])
               ELSE \E fr \in fi..fl :
                      /\ \A k \in fi..(fr - 1) : ~StartsWithDot(file[k])
                      /\ MatchOne(file, pattern, fr, pi + 1)
          ELSE /\ SegmentMatches(pattern[pi], file[fi])
               /\ MatchOne(file, pattern, fi + 1, pi + 1)

\* minimatch.match([f], p, REPO_RULES_MINIMATCH_OPTIONS).length > 0
MinimatchMatches(f, p) ==
  IF Len(p) = 0 THEN Len(f) = 0
  ELSE MatchOne(SlashSplit(f), SlashSplit(p), 1, 1)

\* ------------------------------------------------------------------------
\* Ruleset selection (getRulesetsApplicableToBranchName)
\* ------------------------------------------------------------------------
KwAll == <<"~", "A", "L", "L">>
KwDefault == <<"~", "D", "E", "F", "A", "U", "L", "T">>

\* The for-loop of branchNameMatchesPatterns from index i of the list.
RECURSIVE MatchesFrom(_, _, _, _, _)
MatchesFrom(branchName, list, i, defaultBranchName, matchKeywords) ==
  IF i > Len(list) THEN FALSE
  ELSE LET p == list[i] IN
    IF /\ matchKeywords
       /\ \/ p = KwAll
          \/ /\ p = KwDefault
             /\ Truthy(defaultBranchName)
             /\ defaultBranchName[1] = branchName
    THEN TRUE
    ELSE IF MinimatchMatches(branchName, p) THEN TRUE
    ELSE MatchesFrom(branchName, list, i + 1, defaultBranchName, matchKeywords)

\* patterns is the optional list (`patterns ?? []`).
branchNameMatchesPatterns(branchName, patterns, defaultBranchName, matchKeywords) ==
  MatchesFrom(branchName, IF IsDefined(patterns) THEN patterns[1] ELSE << >>,
              1, defaultBranchName, matchKeywords)

\* `!list || list.length === 0`
NoneOrEmpty(optList) == ~IsDefined(optList) \/ Len(optList[1]) = 0

RulesetAppliesIgnoringExclude(branchName, rs, defaultBranchName) ==
  /\ ~(NoneOrEmpty(rs.include) /\ NoneOrEmpty(rs.exclude))
  /\ branchNameMatchesPatterns(branchName, rs.include, defaultBranchName, TRUE)

RulesetAppliesKeywordsInExclude(branchName, rs, defaultBranchName) ==
  /\ ~(NoneOrEmpty(rs.include) /\ NoneOrEmpty(rs.exclude))
  /\ branchNameMatchesPatterns(branchName, rs.include, defaultBranchName, TRUE)
  /\ ~branchNameMatchesPatterns(branchName, rs.exclude, defaultBranchName, TRUE)

\* One iteration of the loop over rulesets.values(): is rs pushed?
RulesetApplies(branchName, rs, defaultBranchName) ==
  LET included == rs.include
      excluded == rs.exclude
  IN IF NoneOrEmpty(included) /\ NoneOrEmpty(excluded) THEN FALSE
     ELSE IF ~branchNameMatchesPatterns(branchName, included,
                                        defaultBranchName, TRUE)
     THEN FALSE
     ELSE ~branchNameMatchesPatterns(branchName, excluded,
                                     defaultBranchName, FALSE)

\* The loop over rulesets.values(), from index i.
RECURSIVE ApplicableFrom(_, _, _, _, _)
ApplicableFrom(branchName, rulesets, defaultBranchName, i, applicableRulesets) ==
  IF i > Len(rulesets) THEN applicableRulesets
  ELSE ApplicableFrom(branchName, rulesets, defaultBranchName, i + 1,
         IF RulesetApplies(branchName, rulesets[i], defaultBranchName)
         THEN Append(applicableRulesets, rulesets[i])
         ELSE applicableRulesets)

getRulesetsApplicableToBranchName(branchName, rulesets, defaultBranchName) ==
  IF Len(branchName) = 0 \/ Len(rulesets) = 0 THEN << >>
  ELSE ApplicableFrom(branchName, rulesets, defaultBranchName, 1, << >>)

\* ------------------------------------------------------------------------
\* Rule aggregation (parseRepoRules)
\* ------------------------------------------------------------------------
\* RepoRuleEnforced: false, 'bypass' and true.
NotPresent == "false"
Bypass == "bypass"
Enforced == "true"

BasicCommitWarningTypes ==
  {"Update", "RequiredDeployments", "RequiredSignatures", "RequiredStatusChecks"}

MetadataTypes ==
  {"CommitMessagePattern", "CommitAuthorEmailPattern",
   "CommitterEmailPattern", "BranchNamePattern"}

\* new RepoRulesInfo()
NewRepoRulesInfo ==
  [basicCommitWarning |-> NotPresent,
   creationRestricted |-> NotPresent,
   pullRequestRequired |-> NotPresent,
   commitMessagePatterns |-> << >>,
   commitAuthorEmailPatterns |-> << >>,
   committerEmailPatterns |-> << >>,
   branchNamePatterns |-> << >>]

\* list.push(entry) for an optional entry; keepUndefined tells whether the
\* list stores an undefined argument or leaves it out.
Push(list, entry, keepUndefined) ==
  IF IsDefined(entry) \/ keepUndefined THEN Append(list, entry) ELSE list

\* rulesets.get(id): the map is the sequence of its values in insertion
\* order, each carrying its key as id.
RulesetGetOrStrict(rulesets, id) ==
  IF \E i \in 1..Len(rulesets) : rulesets[i].id = id
  THEN << rulesets[CHOOSE i \in 1..Len(rulesets) : rulesets[i].id = id] >>
  ELSE << [id |-> id, current_user_can_bypass |-> "never",
           include |-> << >>, exclude |-> << >>] >>

RulesetGet(rulesets, id) ==
  IF \E i \in 1..Len(rulesets) : rulesets[i].id = id
  THEN << rulesets[CHOOSE i \in 1..Len(rulesets) : rulesets[i].id = id] >>
  ELSE << >>

EnforcedForUnlessNever(ruleset) ==
  IF ruleset.current_user_can_bypass # "never" THEN Bypass ELSE Enforced

\* ruleset.current_user_can_bypass === 'always' ? 'bypass' : true
EnforcedFor(ruleset) ==
  IF ruleset.current_user_can_bypass = "always" THEN Bypass ELSE Enforced

MergeLastWins(current, enforced) == enforced

MergeWeakest(current, enforced) ==
  IF current = NotPresent THEN enforced
  ELSE IF current = Bypass THEN Bypass ELSE enforced

\* info.x !== true ? enforced : true
Merge(current, enforced) ==
  IF current # Enforced THEN enforced ELSE Enforced

\* The body of the loop of parseRepoRules for one rule.  threw = TRUE when
\* toMetadataRule raised, which ends parseRepoRules without a result.
ProcessRule(info, rule, rulesets, keepUndefined) ==
  LET ruleset == RulesetGet(rulesets, rule.ruleset_id) IN
  IF ~IsDefined(ruleset) THEN [threw |-> FALSE, info |-> info]
  ELSE
    LET enforced == EnforcedFor(ruleset[1])
        entry == toMetadataRule(rule, enforced)
        Pushed(field) ==
          IF entry.threw THEN [threw |-> TRUE, info |-> info]
          ELSE [threw |-> FALSE,
                info |-> [info EXCEPT
                            ![field] = Push(@, entry.value, keepUndefined)]]
    IN CASE rule.type \in BasicCommitWarningTypes ->
              [threw |-> FALSE,
               info |-> [info EXCEPT !.basicCommitWarning = Merge(@, enforced)]]
         [] rule.type = "Creation" ->
              [threw |-> FALSE,
               info |-> [info EXCEPT !.creationRestricted = Merge(@, enforced)]]
         [] rule.type = "PullRequest" ->
              [threw |-> FALSE,
               info |-> [info EXCEPT !.pullRequestRequired = Merge(@, enforced)]]
         [] rule.type = "CommitMessagePattern" -> Pushed("commitMessagePatterns")
         [] rule.type = "CommitAuthorEmailPattern" ->
              Pushed("commitAuthorEmailPatterns")
         [] rule.type = "CommitterEmailPattern" -> Pushed("committerEmailPatterns")
         [] rule.type = "BranchNamePattern" -> Pushed("branchNamePatterns")
         [] OTHER -> [threw |-> FALSE, info |-> info]

\* The loop of parseRepoRules from index i.
RECURSIVE ParseFrom(_, _, _, _, _)
ParseFrom(rules, rulesets, keepUndefined, i, info) ==
  IF i > Len(rules) THEN [threw |-> FALSE, info |-> info]
  ELSE LET step == ProcessRule(info, rules[i], rulesets, keepUndefined) IN
    IF step.threw THEN step
    ELSE ParseFrom(rules, rulesets, keepUndefined, i + 1, step.info)

parseRepoRules(rules, rulesets, keepUndefined) ==
  ParseFrom(rules, rulesets, keepUndefined, 1, NewRepoRulesInfo)

\* ------------------------------------------------------------------------
\* Input universes
\* ------------------------------------------------------------------------
Ruleset(id, bypass, include, exclude) ==
  [id |-> id, current_user_can_bypass |-> bypass,
   include |-> include, exclude |-> exclude]

\* Ruleset maps given to parseRepoRules; ruleset ids are 1 and 2.
AggregatorRulesetMaps ==
  { << Ruleset(1, "always", << >>, << >>), Ruleset(2, "never", << >>, << >>) >>,
    << Ruleset(1, "pull_requests_only", << >>, << >>) >> }

RulesetIds == {1, 2}

Params(operator, pattern, negate) ==
  [operator |-> operator, pattern |-> pattern, negate |-> negate]

\* Parameters of the pattern-typed rules given to parseRepoRules: absent,
\* well-formed, a regular expression that does not compile, and an operator
\* outside APIRepoRuleMetadataOperator.
RuleParameters ==
  { << >>,
    << Params("StartsWith", <<"a">>, FALSE) >>,
    << Params("RegexMatch", <<"(">>, FALSE) >>,
    << Params("Unrecognized", <<"a">>, TRUE) >> }

\* "Other" stands for a rule type parseRepoRules has no case for.
SimpleTypes == BasicCommitWarningTypes \cup {"Creation", "PullRequest", "Other"}

Rule(type, id, parameters) ==
  [type |-> type, ruleset_id |-> id, parameters |-> parameters]

WellFormedParameters == {ps \in RuleParameters : ps = << >> \/ ps[1].operator = "StartsWith"}

\* Every rule type with both ruleset ids; commit-message rules take every
\* parameter shape, the other pattern types the absent and the well-formed.
RuleUniverse ==
  {Rule(t, id, << >>) : t \in SimpleTypes, id \in RulesetIds}
  \cup {Rule("CommitMessagePattern", id, ps) : id \in RulesetIds,
                                               ps \in RuleParameters}
  \cup {Rule(t, id, ps) : t \in MetadataTypes \ {"CommitMessagePattern"},
                          id \in RulesetIds, ps \in WellFormedParameters}

Str_m == <<"m">>
Str_d == <<"d">>
Str_r_m == <<"r", "/", "m">>
Str_r_star == <<"r", "/", "*">>
Str_globstar_m == <<"*", "*", "/", "m">>

BranchNames == {<< >>, Str_m, Str_d, Str_r_m, KwAll, KwDefault}

\* null, the empty string, and a known default branch.
DefaultBranchNames == {<< >>, << << >> >>, << Str_m >>}

\* include lists: empty, the two keywords, and glob patterns.
IncludeOptions ==
  { << << >> >>,
    << <<KwAll>> >>,
    << <<KwDefault>> >>,
    << <<Str_r_star, Str_m>> >>,
    << <<Str_globstar_m>> >> }

\* exclude lists: absent, the two keywords as literals, and a glob pattern.
ExcludeOptions ==
  { << >>,
    << <<KwAll>> >>,
    << <<KwDefault>> >>,
    << <<Str_r_star>> >> }

\* Ruleset maps given to the selector: the key of the i-th ruleset is i.
SelectorRulesetMaps ==
  UNION { { [i \in 1..k |-> Ruleset(i, "never", inc[i], exc[i])] :
              inc \in [1..k -> IncludeOptions], exc \in [1..k -> ExcludeOptions] }
          : k \in 0..MaxRulesets }

PatternChars == {"a", ".", "*", "^", "$", "("}
CandidateChars == {"a", "."}

Patterns == SeqsUpTo(PatternChars, MaxLen)
Candidates == SeqsUpTo(CandidateChars, MaxLen)

\* Arguments of toMatcher: undefined, or parameters with one of the four
\* operators or an operator outside the enum.
MatcherArguments ==
  { << >> } \cup
  { << Params(op, pat, neg) >> :
      op \in Operators \cup {"Unrecognized"}, pat \in Patterns, neg \in BOOLEAN }

\* ------------------------------------------------------------------------
\* State
\* ------------------------------------------------------------------------
VARIABLES
  pc,                 \* position of the call being executed
  rules,              \* parseRepoRules: the rules iterated so far
  rulesets,           \* the ruleset map of the call
  keepUndefined,      \* whether the metadata lists store an undefined entry
  info,               \* parseRepoRules: the RepoRulesInfo being built
  branchName,         \* selector argument
  defaultBranchName,  \* selector argument
  applicableRulesets, \* selector result
  params,             \* toMatcher argument
  toMatch,            \* the string the matcher is called on
  matcher,            \* the matcher toMatcher returned
  result              \* the matcher's answer

vars == <<pc, rules, rulesets, keepUndefined, info, branchName,
          defaultBranchName, applicableRulesets, params, toMatch, matcher,
          result>>

parseVars == <<rules, rulesets, keepUndefined, info>>
selectVars == <<branchName, defaultBranchName, applicableRulesets>>
matchVars == <<params, toMatch, matcher, result>>

ParseIdle ==
  /\ rules = << >>
  /\ keepUndefined = FALSE
  /\ info = NewRepoRulesInfo

SelectIdle ==
  /\ branchName = << >>
  /\ defaultBranchName = << >>
  /\ applicableRulesets = << >>

MatchIdle ==
  /\ params = << >>
  /\ toMatch = << >>
  /\ matcher = NeverMatcher
  /\ result = FALSE

\* ------------------------------------------------------------------------
\* parseRepoRules, one loop iteration per step
\* ------------------------------------------------------------------------
InitParse ==
  /\ pc = "parsing"
  /\ rules = << >>
  /\ rulesets \in AggregatorRulesetMaps
  /\ keepUndefined \in BOOLEAN
  /\ info = NewRepoRulesInfo
  /\ SelectIdle
  /\ MatchIdle

\* The loop takes the next rule of the list.
ParseRule(rule) ==
  /\ pc = "parsing"
  /\ Len(rules) < MaxRules
  /\ LET step == ProcessRule(info, rule, rulesets, keepUndefined) IN
       /\ pc' = IF step.threw THEN "threw" ELSE "parsing"
       /\ info' = step.info
  /\ rules' = Append(rules, rule)
  /\ UNCHANGED <<rulesets, keepUndefined, selectVars, matchVars>>

\* The list is exhausted: return info.
ParseReturn ==
  /\ pc = "parsing"
  /\ pc' = "returned"
  /\ UNCHANGED <<parseVars, selectVars, matchVars>>

NextParse ==
  \/ \E rule \in RuleUniverse : ParseRule(rule)
  \/ ParseReturn

SpecParse == InitParse /\ [][NextParse]_vars

\* ------------------------------------------------------------------------
\* getRulesetsApplicableToBranchName
\* ------------------------------------------------------------------------
InitSelect ==
  /\ pc = "selecting"
  /\ branchName \in BranchNames
  /\ defaultBranchName \in DefaultBranchNames
  /\ rulesets \in SelectorRulesetMaps
  /\ applicableRulesets = << >>
  /\ ParseIdle
  /\ MatchIdle

SelectRulesets ==
  /\ pc = "selecting"
  /\ pc' = "selected"
  /\ applicableRulesets' =
       getRulesetsApplicableToBranchName(branchName, rulesets, defaultBranchName)
  /\ UNCHANGED <<branchName, defaultBranchName, parseVars, matchVars>>

NextSelect == SelectRulesets

SpecSelect == InitSelect /\ [][NextSelect]_vars

\* ------------------------------------------------------------------------
\* toMatcher and a call of the matcher it returns
\* ------------------------------------------------------------------------
InitMatch ==
  /\ pc = "compiling"
  /\ params \in MatcherArguments
  /\ toMatch \in Candidates
  /\ matcher = NeverMatcher
  /\ result = FALSE
  /\ rulesets = << >>
  /\ ParseIdle
  /\ SelectIdle

CompileMatcher ==
  /\ pc = "compiling"
  /\ LET m == toMatcher(params) IN
       /\ pc' = IF m.threw THEN "compileThrew" ELSE "compiled"
       /\ matcher' = m.matcher
  /\ UNCHANGED <<params, toMatch, result, parseVars, selectVars>>

CallMatcher ==
  /\ pc = "compiled"
  /\ pc' = "tested"
  /\ result' = Matches(matcher, toMatch)
  /\ UNCHANGED <<params, toMatch, matcher, parseVars, selectVars>>

NextMatch ==
  \/ CompileMatcher
  \/ CallMatcher

SpecMatch == InitMatch /\ [][NextMatch]_vars

\* ------------------------------------------------------------------------
\* Properties of getRulesetsApplicableToBranchName (SpecSelect)
\* ------------------------------------------------------------------------
Selected(i) ==
  \E j \in 1..Len(applicableRulesets) : applicableRulesets[j] = rulesets[i]

ListOf(optList) == IF IsDefined(optList) THEN optList[1] ELSE << >>

\* branchName matches the include list, the keywords honoured.
IncludeListMatches(rs) ==
  \E k \in 1..Len(ListOf(rs.include)) :
    LET p == ListOf(rs.include)[k] IN
      \/ p = KwAll
      \/ p = KwDefault /\ Truthy(defaultBranchName)
                       /\ defaultBranchName[1] = branchName
      \/ MinimatchMatches(branchName, p)

\* branchName matches the exclude list, every pattern taken as a glob.
ExcludeListMatches(rs) ==
  \E k \in 1..Len(ListOf(rs.exclude)) :
    MinimatchMatches(branchName, ListOf(rs.exclude)[k])

Qualifies(rs) == IncludeListMatches(rs) /\ ~ExcludeListMatches(rs)

C2_DefaultKeywordOnlyDefaultBranch ==
  pc = "selected" =>
    \A i \in 1..Len(rulesets) :
      (rulesets[i].include = << <<KwDefault>> >> /\ Selected(i))
        => (Truthy(defaultBranchName) /\ defaultBranchName[1] = branchName)

\* C3: a ruleset with include ["~ALL"] and exclude ["~ALL"] or ["~DEFAULT"]
\* is selected for every non-empty branch name other than the excluded
\* string itself, the default branch included: in the exclude list the
\* keyword is a literal glob pattern.
C3_KeywordsLiteralInExclude ==
  pc = "selected" =>
    \A i \in 1..Len(rulesets) :
      (/\ rulesets[i].include = << <<KwAll>> >>
       /\ rulesets[i].exclude \in { << <<KwAll>> >>, << <<KwDefault>> >> })
        => (Selected(i) <=>
              (Len(branchName) > 0 /\ branchName # rulesets[i].exclude[1][1]))

\* C3 witness: the default branch is selected by include ["~ALL"] although
\* the exclude list is ["~DEFAULT"].
C3_Witness ==
  /\ pc = "selected"
  /\ Truthy(defaultBranchName) /\ defaultBranchName[1] = branchName
  /\ \E i \in 1..Len(rulesets) :
       /\ rulesets[i].include = << <<KwAll>> >>
       /\ rulesets[i].exclude = << <<KwDefault>> >>
       /\ Selected(i)

\* ------------------------------------------------------------------------
\* Properties of parseRepoRules (SpecParse)
\* ------------------------------------------------------------------------
SimpleCategories ==
  {"basicCommitWarning", "creationRestricted", "pullRequestRequired"}

MetadataFields ==
  {"commitMessagePatterns", "commitAuthorEmailPatterns",
   "committerEmailPatterns", "branchNamePatterns"}

TypesOf(category) ==
  CASE category = "basicCommitWarning" -> BasicCommitWarningTypes
    [] category = "creationRestricted" -> {"Creation"}
    [] category = "pullRequestRequired" -> {"PullRequest"}

TypeOf(field) ==
  CASE field = "commitMessagePatterns" -> "CommitMessagePattern"
    [] field = "commitAuthorEmailPatterns" -> "CommitAuthorEmailPattern"
    [] field = "committerEmailPatterns" -> "CommitterEmailPattern"
    [] field = "branchNamePatterns" -> "BranchNamePattern"

Rank(level) ==
  CASE level = NotPresent -> 0
    [] level = Bypass -> 1
    [] level = Enforced -> 2

Known(rule) == \E k \in 1..Len(rulesets) : rulesets[k].id = rule.ruleset_id

BypassOf(rule) ==
  rulesets[CHOOSE k \in 1..Len(rulesets) : rulesets[k].id = rule.ruleset_id]
    .current_user_can_bypass

\* The level of one rule instance of a known ruleset.
InstanceLevel(rule) == IF BypassOf(rule) = "always" THEN Bypass ELSE Enforced

\* The instances of a category among the rules iterated so far.
Instances(category) ==
  {i \in 1..Len(rules) : rules[i].type \in TypesOf(category) /\ Known(rules[i])}

Strictest(category) ==
  IF \E i \in Instances(category) : InstanceLevel(rules[i]) = Enforced
  THEN Enforced
  ELSE IF Instances(category) # {} THEN Bypass ELSE NotPresent

\* C4: each simple category's field is the maximum, under
\* enforced > bypass > not present, of the levels of the category's rule
\* instances whose ruleset is known, whatever their order.
C4_StrictestWins ==
  pc \in {"parsing", "returned"} =>
    \A c \in SimpleCategories : info[c] = Strictest(c)

\* C4 witness: an enforced instance followed by a bypass instance of the
\* same category, merged to enforced.
C4_Witness ==
  /\ pc = "returned"
  /\ \E c \in SimpleCategories :
       /\ Instances(c) = {1, 2}
       /\ InstanceLevel(rules[1]) = Enforced
       /\ InstanceLevel(rules[2]) = Bypass
       /\ info[c] = Enforced

\* The sub-list of rules at the positions S, in order.
SubList(S) == SelectSeq([i \in 1..Len(rules) |-> <<i, rules[i]>>],
                        LAMBDA pair : pair[1] \in S)

RulesAt(S) == [i \in 1..Len(SubList(S)) |-> SubList(S)[i][2]]

\* C5: parseRepoRules on any sub-list of the rules never yields a stricter
\* level, for any category, than on the whole list.
C5_MergeMonotonic ==
  pc \in {"parsing", "returned"} =>
    \A S \in SUBSET (1..Len(rules)) :
      LET sub == parseRepoRules(RulesAt(S), rulesets, keepUndefined) IN
        /\ ~sub.threw
        /\ \A c \in SimpleCategories : Rank(sub.info[c]) <= Rank(info[c])

\* C5 witness: the second rule alone gives bypass, the two rules together
\* give enforced.
C5_Witness ==
  /\ pc = "returned"
  /\ Len(rules) = 2
  /\ \E c \in SimpleCategories :
       /\ info[c] = Enforced
       /\ parseRepoRules(RulesAt({2}), rulesets, keepUndefined).info[c] = Bypass

\* C6: the summary is the one computed from the rule list with every rule
\* of an unknown ruleset removed.
C6_UnknownRulesetDropped ==
  LET kept == parseRepoRules(SelectSeq(rules, Known), rulesets, keepUndefined)
  IN /\ (pc = "threw") <=> kept.threw
     /\ pc \in {"parsing", "returned"} => info = kept.info

\* C6 witness: a simple rule and a pattern rule with parameters, both of
\* an unknown ruleset, leave the returned summary empty.
C6_Witness ==
  /\ pc = "returned"
  /\ Len(rules) = 2
  /\ \A i \in 1..2 : ~Known(rules[i])
  /\ rules[1].type \in BasicCommitWarningTypes
  /\ rules[2].type \in MetadataTypes /\ IsDefined(rules[2].parameters)
  /\ info = NewRepoRulesInfo

\* A known-ruleset rule of a pattern type with parameters / of type t.
KnownOfType(t) ==
  SelectSeq(rules, LAMBDA r : r.type = t /\ Known(r))

KnownWithParametersOfType(t) ==
  SelectSeq(rules, LAMBDA r : r.type = t /\ Known(r) /\ IsDefined(r.parameters))

AlwaysFalse(m) == \A x \in Candidates : ~Matches(m, x)

\* A pattern-typed rule without parameters or with an operator outside the
\* four of APIRepoRuleMetadataOperator.
Inert(rule) ==
  \/ ~IsDefined(rule.parameters)
  \/ rule.parameters[1].operator \notin Operators

\* C8 (as claimed): whatever the aggregator records for a pattern-typed rule
\* that has an unrecognized operator or no parameters is inert: an entry
\* recorded for it has an always-false matcher and no human-readable
\* description.  (A rule without parameters gets no entry at all; the
\* entries present are those of the rules with parameters, in order.)
C8_InertEntryHasNoDescription ==
  pc = "returned" =>
    \A f \in MetadataFields :
      LET entries == SelectSeq(info[f], IsDefined)
          recorded == KnownWithParametersOfType(TypeOf(f))
      IN \A i \in 1..Len(recorded) :
           Inert(recorded[i]) =>
             /\ i <= Len(entries)
             /\ AlwaysFalse(entries[i][1].matcher)
             /\ entries[i][1].humanDescription = NoDescription

\* A regex-match rule of a known ruleset whose pattern does not compile.
Malformed(rule) ==
  /\ rule.type \in MetadataTypes
  /\ Known(rule)
  /\ IsDefined(rule.parameters)
  /\ rule.parameters[1].operator = "RegexMatch"
  /\ ~RE2JSCompile(rule.parameters[1].pattern).ok

\* The entry the claim expects for a malformed rule: an always-false matcher.
IsDegraded(entry) == IsDefined(entry) /\ entry[1].matcher = NeverMatcher

\* C9 (as claimed): with one malformed regex-match rule in the list,
\* parseRepoRules still returns a summary, in which the offending rule's
\* matcher is always-false and the other rules contribute as without it.
C9_MalformedRegexDegrades ==
  (/\ pc \in {"returned", "threw"}
   /\ Cardinality({i \in 1..Len(rules) : Malformed(rules[i])}) = 1)
    => LET others == parseRepoRules(SelectSeq(rules, LAMBDA r : ~Malformed(r)),
                                    rulesets, keepUndefined)
       IN /\ pc = "returned"
          /\ \A c \in SimpleCategories : info[c] = others.info[c]
          /\ \A f \in MetadataFields :
               SelectSeq(info[f], LAMBDA e : ~IsDegraded(e)) = others.info[f]

DefinedEntries(list) == SelectSeq(list, IsDefined)

EntryIsOf(entry, rule) ==
  /\ IsDefined(entry)
  /\ entry[1].rulesetId = rule.ruleset_id
  /\ entry[1].enforced = InstanceLevel(rule)

Negated(optParams) == << [optParams[1] EXCEPT !.negate = ~@] >>

\* C7 (as claimed): for every operator and pattern, the matcher and the
\* matcher compiled with negate flipped answer oppositely on every string.
C7_NegationOppositeForEveryOperator ==
  (pc = "tested" /\ IsDefined(params))
    => result # Matches(toMatcher(Negated(params)).matcher, toMatch)

\* C7 (amended): for each of the four operators of
\* APIRepoRuleMetadataOperator, compiling with negate flipped fails exactly
\* when compiling the original does, and otherwise the two matchers answer
\* oppositely on every string; for any other operator both answer false.
C7_NegationOppositeForKnownOperators ==
  IsDefined(params) =>
    LET flipped == toMatcher(Negated(params)) IN
      /\ pc = "compileThrew" => flipped.threw
      /\ pc \in {"compiled", "tested"} => ~flipped.threw
      /\ pc = "tested" =>
           IF params[1].operator \in Operators
           THEN result # Matches(flipped.matcher, toMatch)
           ELSE ~result /\ ~Matches(flipped.matcher, toMatch)

\* C7 witness: a negated ends-with matcher answers true on a string that
\* does not end with the pattern.
C7_Witness ==
  /\ pc = "tested"
  /\ IsDefined(params)
  /\ params[1].operator = "EndsWith"
  /\ params[1].negate
  /\ Len(params[1].pattern) > 0
  /\ result

====
